---- MODULE Spec2Model ----
(***************************************************************************)
(* FunctionAppService of serverless-azure-functions: artifact upload       *)
(* (external package / direct push), convergence polling of the function   *)
(* listing, and clean-up of deployed functions.                            *)
(*                                                                         *)
(* The service is single-threaded asynchronous code.  One action of the    *)
(* model is one event of the event loop (a call from the outside, the      *)
(* completion of a network call, the end of a retry delay) together with   *)
(* every synchronous continuation the completion runs, up to the next      *)
(* await.                                                                  *)
(***************************************************************************)
EXTENDS Integers, FiniteSets, Sequences, TLC

VARIABLES
  op,                \* the public method invoked on the service
  pc,                \* position of that invocation
  err,               \* the error the invocation rejected with
  ret,               \* the value the invocation resolved with
  functionApp,       \* argument functionApp: "null" or "site"
  functionName,      \* argument functionName ("" when empty)
  external,          \* config.provider.deployment.external
  functionZipFile,   \* result of getFunctionZipFile()
  serviceFunctions,  \* serverless.service.getAllFunctions()
  setting,           \* updateFunctionAppSetting: key to set
  value,             \* updateFunctionAppSetting: value to set
  hostUnits,         \* functions really deployed on the function app
  appSettings,       \* application settings held by the function app
  blob,              \* uploadZippedArtifactToBlobStorage: call in flight
  push,              \* uploadZippedArfifactToFunctionApp: call in flight
  settings,          \* updateFunctionAppSetting: call in flight
  properties,        \* updateFunctionAppSetting: local copy of the settings
  sync,              \* syncTriggers: call in flight
  syncProps,         \* properties posted by syncTriggers
  poll,              \* runWithRetry: position
  retry,             \* runWithRetry: number of the current attempt
  retries,           \* listFunctions: local counter `retries`
  lastResp,          \* response of the most recent probe
  deployedFunctions, \* value listFunctions resolved with
  delTask,           \* deleteFunction promise per function name
  reqs,              \* number of requests issued, per kind
  bindings,          \* config.bindings of the functions whose bindings were read
  httpConfig,        \* value getFunctionHttpTriggerConfig returned
  reported,          \* lines logged by the report loop of uploadFunctions
  armConfig,         \* config.provider: armTemplate and type
  deployment,        \* deploy: the ArmDeployment created
  other              \* a second deployer updating the same settings map

inputs == <<functionApp, functionName, external, functionZipFile,
            serviceFunctions, setting, value>>
upload == <<blob, push, settings, properties, sync, syncProps>>
poller == <<poll, retry, retries, lastResp, deployedFunctions>>
report == <<bindings, httpConfig, reported>>
extra  == <<report, armConfig, deployment, other>>
vars   == <<op, pc, err, ret, inputs, hostUnits, appSettings, upload, poller,
            delTask, reqs, extra>>
base   == <<inputs, hostUnits, appSettings, upload, delTask>>

(***************************************************************************)
(* Bounds and value domains                                                *)
(***************************************************************************)
MaxNames == 3
NamePool == <<"a", "b", "c", "d", "e">>
Names    == {NamePool[i] : i \in 1..MaxNames}

retryCount == 30

runFromPackageSetting == "WEBSITE_RUN_FROM_PACKAGE"
SettingKeys   == {runFromPackageSetting, "FUNCTIONS_WORKER_RUNTIME"}
SettingValues == {"unset", "sasUrl"}
LocalFiles    == {"app.zip"}
ZipFiles      == {"", "app.zip", "missing.zip"}

AppSettingsMaps == [SettingKeys -> SettingValues]

Kinds == {"list", "get", "delete", "sync", "settingsGet", "settingsPut",
          "token", "zipdeploy", "storage", "sas",
          "armCreate", "armDeploy", "siteGet"}

\* config.provider: an explicit ARM template or none, a named type or none
ArmConfigs == [armTemplate : {"none", "custom"}, type : {"none", "premium"}]
NoDeployment == [from |-> "none", arg |-> "none", state |-> "none"]

\* error codes webApps.get can answer with ("none": the site)
SiteCodes == {"none", "ResourceNotFound", "ResourceGroupNotFound",
              "AuthorizationFailed"}

NoBindings == [n \in {} |-> <<>>]
NoConfig   == [found |-> FALSE, authLevel |-> "none", methods |-> <<>>,
               url |-> <<>>, route |-> "none", name |-> "none"]
NoOther    == [pc |-> "none", setting |-> "none", value |-> "none",
               serial |-> FALSE,
               properties |-> [k \in SettingKeys |-> "unset"]]

NoData == [value |-> {}, error |-> "none"]
NoResp == [status |-> 0, data |-> NoData]
NoErr  == [msg |-> "none", data |-> NoData]

\* Responses the listing endpoint can give while the host holds `units`.
ListResponses(units) ==
  {[status |-> 200, data |-> [value |-> units, error |-> "none"]],
   [status |-> 200, data |-> [value |-> {}, error |-> "none"]],
   [status |-> 503, data |-> [value |-> {}, error |-> "unavailable"]]}

\* Responses the single-function endpoint can give for `name`.
GetResponses(name) ==
  {[status |-> 200, data |-> [value |-> {name}, error |-> "none"]],
   [status |-> 404, data |-> [value |-> {}, error |-> "notFound"]],
   [status |-> 503, data |-> [value |-> {}, error |-> "unavailable"]]}

Bump(S) == [k \in Kinds |-> reqs[k] + (IF k \in S THEN 1 ELSE 0)]

(***************************************************************************)
(* Pure pieces of the code                                                 *)
(***************************************************************************)
\* Guard.null / Guard.empty
GuardNull(fa)    == fa = "null"
GuardEmpty(name) == name = ""

\* cleanUp: the functions the forEach pushes a deleteFunction task for
DeleteTasks(deployed, service) == {n \in deployed : n \in service}

\* listFunctions probe: the "not ready" test
ListOnlyStatus(resp) == resp.status # 200
ListNotReady(resp)   == resp.status # 200 \/ resp.data.value = {}

\* listFunctions probe: the error thrown when not ready
ListErrorNoBody(resp) == [msg |-> "TakingLonger", data |-> NoData]
ListProbeError(resp)  == [msg |-> "TakingLonger", data |-> resp.data]

\* getFunction probe: the "not ready" test
GetAcceptAny(resp) == FALSE
GetNotReady(resp)  == resp.status # 200

\* getFunction: response.data.properties of the returned response
ResponseProperties(resp) ==
  IF resp.data.value = {} THEN "undefined"
  ELSE CHOOSE n \in resp.data.value : TRUE

\* uploadZippedArfifactToFunctionApp: the zip file test
ZipAlwaysFound(file) == TRUE
ZipFound(file)       == file # "" /\ file \in LocalFiles

\* Promise.all over a set of promise states
AllSettledRejects(S)  == FALSE
PromiseAllRejects(S)  == "failed" \in S
PromiseAllResolves(S) == S \subseteq {"done"}

\* runWithRetry: the attempt budget is used up
Exhausted(attempt, maxRetries) == attempt >= maxRetries

BlobInFlight == {"initialize", "createContainer", "uploadFile"}
PushInFlight == {"token", "sendFile"}

\* uploadZippedArtifactToBlobStorage: the three awaited blob service calls
BlobNext(b) == CASE b = "initialize"      -> "createContainer"
                 [] b = "createContainer" -> "uploadFile"
                 [] b = "uploadFile"      -> "done"
                 [] OTHER                 -> b

\* a promise state as Promise.all sees it
Settled(s) == IF s \in {"done", "failed"} THEN s ELSE "pending"

\* uploadFunctions, external branch: position after the awaited upload
ExtIgnoreUpload(b) == IF b \in {"done", "failed"} THEN "ext_sas" ELSE "ext_blob"
ExtAfterUpload(b)  == CASE b = "done"   -> "ext_sas"
                        [] b = "failed" -> "failed"
                        [] OTHER        -> "ext_blob"

\* uploadFunctions, external branch: position after the awaited syncTriggers
ExtIgnoreSync(s) == IF s \in {"done", "failed"} THEN "list" ELSE "ext_sync"
ExtAfterSync(s)  == CASE s = "done"   -> "list"
                      [] s = "failed" -> "failed"
                      [] OTHER        -> "ext_sync"

\* uploadFunctions, direct branch: position after Promise.all([blob, push])
JoinNext(b, p) ==
  IF PromiseAllRejects({Settled(b), Settled(p)}) THEN "failed"
  ELSE IF PromiseAllResolves({Settled(b), Settled(p)}) THEN "list"
  ELSE "join"

\* cleanUp: position after Promise.all(deleteTasks)
CleanUpNext(tasks) ==
  IF PromiseAllRejects({Settled(tasks[n]) : n \in DOMAIN tasks}) THEN "failed"
  ELSE IF PromiseAllResolves({Settled(tasks[n]) : n \in DOMAIN tasks}) THEN "done"
  ELSE "deleting"

NoTasks == [n \in {} |-> "none"]

(***************************************************************************)
(* Initial state: the service is constructed, nothing has been called.     *)
(***************************************************************************)
Init ==
  /\ op = "none" /\ pc = "idle" /\ err = NoErr /\ ret = "none"
  /\ functionApp = "site" /\ functionName = "" /\ external = FALSE
  /\ functionZipFile = "" /\ serviceFunctions = {}
  /\ setting = runFromPackageSetting /\ value = "unset"
  /\ hostUnits = {}
  /\ appSettings = [k \in SettingKeys |-> "unset"]
  /\ blob = "none" /\ push = "none" /\ settings = "none"
  /\ properties = [k \in SettingKeys |-> "unset"]
  /\ sync = "none" /\ syncProps = [k \in SettingKeys |-> "unset"]
  /\ poll = "idle" /\ retry = 0 /\ retries = 0 /\ lastResp = NoResp
  /\ deployedFunctions = {}
  /\ delTask = NoTasks
  /\ reqs = [k \in Kinds |-> 0]
  /\ bindings = NoBindings /\ httpConfig = NoConfig /\ reported = <<>>
  /\ armConfig = [armTemplate |-> "none", type |-> "none"]
  /\ deployment = NoDeployment
  /\ other = NoOther

\* runWithRetry starts: the first probe is issued
BeginPoll ==
  /\ poll' = "probe" /\ retry' = 1 /\ retries' = 0
  /\ lastResp' = NoResp /\ deployedFunctions' = {}


Err(m) == [msg |-> m, data |-> NoData]

(***************************************************************************)
(* Function bindings and the HTTP trigger configuration                    *)
(***************************************************************************)
\* A binding of a function's config.  route "none" and methods.given = FALSE
\* stand for a field the binding does not have; route "" is an empty string.
MaxBindings == 2
MethodLists == {<<>>, <<"get", "post">>, <<"GET">>}
Methods  == [given : {TRUE}, items : MethodLists] \cup
            {[given |-> FALSE, items |-> <<>>]}
Bindings == [type : {"httpTrigger"},
             route : {"none", "", "widgets/{id}"},
             methods : Methods,
             authLevel : {"anonymous", "function"}] \cup
            {[type |-> "http", route |-> "none", authLevel |-> "none",
              methods |-> [given |-> FALSE, items |-> <<>>]]}
BindingLists == UNION {[1..n -> Bindings] : n \in 0..MaxBindings}

defaultHostName == "h.example.net"

\* String.prototype.toUpperCase on the method names used
toUpperCase(m) == CASE m = "get"  -> "GET"
                    [] m = "post" -> "POST"
                    [] OTHER      -> m

\* bindings.find(binding => binding.type === "httpTrigger"), as an index;
\* 0 when find returns undefined
LastHttpTrigger(bs) ==
  IF \E i \in DOMAIN bs : bs[i].type = "httpTrigger"
    THEN CHOOSE i \in DOMAIN bs :
           /\ bs[i].type = "httpTrigger"
           /\ \A j \in DOMAIN bs : j > i => bs[j].type # "httpTrigger"
    ELSE 0
FindHttpTrigger(bs) ==
  IF \E i \in DOMAIN bs : bs[i].type = "httpTrigger"
    THEN CHOOSE i \in DOMAIN bs :
           /\ bs[i].type = "httpTrigger"
           /\ \A j \in DOMAIN bs : j < i => bs[j].type # "httpTrigger"
    ELSE 0

\* a || b on a route: undefined and the empty string are falsy
RouteOr(route, name) == IF route \in {"none", ""} THEN name ELSE route

\* a || ["*"] on a method list: an empty array is truthy
MethodsOr(methods) == IF methods.given THEN methods.items ELSE <<"*">>

getFunctionHttpTriggerConfig(fa, name, bs) ==
  LET i == FindHttpTrigger(bs) IN
    IF i = 0
      THEN NoConfig
      ELSE [found     |-> TRUE,
            authLevel |-> bs[i].authLevel,
            methods   |-> MethodsOr(bs[i].methods),
            url       |-> <<defaultHostName, "/api/", RouteOr(bs[i].route, name)>>,
            route     |-> bs[i].route,
            name      |-> name]

\* Binding lists the listing can answer with for a function the report
\* stage reads the bindings of
HttpTrigger(m) == [type |-> "httpTrigger", route |-> "none", methods |-> m,
                   authLevel |-> "anonymous"]
TriggerSamples ==
  {<<>>,
   <<HttpTrigger([given |-> FALSE, items |-> <<>>])>>,
   <<HttpTrigger([given |-> TRUE, items |-> <<>>])>>,
   <<HttpTrigger([given |-> TRUE, items |-> <<"get", "post">>])>>}

\* uploadFunctions: the line logged for a function with an HTTP trigger
ReportLine(name, cfg) == <<name, toUpperCase(cfg.methods[1]), cfg.url>>

\* uploadFunctions: deployedFunctions.forEach of the report stage, from the
\* i-th name on, in the order of NamePool.  httpConfig.methods[0] of an empty
\* array is undefined, and calling toUpperCase on it throws a TypeError.
RECURSIVE ReportFrom(_, _, _, _, _)
ReportFrom(i, observed, declared, bnd, lines) ==
  IF i > Len(NamePool)
    THEN [threw |-> FALSE, lines |-> lines]
    ELSE LET n   == NamePool[i]
             cfg == getFunctionHttpTriggerConfig("site", n, bnd[n])
         IN IF n \notin observed \/ n \notin declared
              THEN ReportFrom(i + 1, observed, declared, bnd, lines)
              ELSE IF ~cfg.found
              THEN ReportFrom(i + 1, observed, declared, bnd, lines)
              ELSE IF cfg.methods = <<>>
                     THEN [threw |-> TRUE, lines |-> lines]
                     ELSE ReportFrom(i + 1, observed, declared, bnd,
                                     Append(lines, ReportLine(n, cfg)))

(***************************************************************************)
(* listFunctions, getFunction and runWithRetry                             *)
(***************************************************************************)
\* listFunctions(functionApp)
CallListFunctions ==
  /\ pc = "idle"
  /\ \E fa \in {"null", "site"}, units \in SUBSET Names :
       /\ op' = "listFunctions" /\ functionApp' = fa /\ hostUnits' = units
       /\ IF GuardNull(fa)
            THEN /\ pc' = "failed" /\ err' = Err("Guard")
                 /\ UNCHANGED <<poller, reqs>>
            ELSE /\ pc' = "list" /\ BeginPoll
                 /\ reqs' = Bump({"list"})
                 /\ UNCHANGED err
       /\ UNCHANGED <<ret, functionName, external, functionZipFile, serviceFunctions,
                      setting, value, appSettings, upload, delTask>>
  /\ UNCHANGED extra

\* cleanUp(functionApp), up to the awaited listFunctions
CallCleanUp ==
  /\ pc = "idle"
  /\ \E fa \in {"null", "site"}, units \in SUBSET Names, service \in SUBSET Names :
       /\ op' = "cleanUp" /\ functionApp' = fa /\ hostUnits' = units
       /\ IF GuardNull(fa)
            THEN /\ pc' = "failed" /\ err' = Err("Guard")
                 /\ UNCHANGED <<serviceFunctions, poller, reqs>>
            ELSE /\ serviceFunctions' = service
                 /\ pc' = "list" /\ BeginPoll
                 /\ reqs' = Bump({"list"})
                 /\ UNCHANGED err
       /\ UNCHANGED <<ret, functionName, external, functionZipFile,
                      setting, value, appSettings, upload, delTask>>
  /\ UNCHANGED extra

\* The listing request of the current attempt is answered.  On a ready
\* answer listFunctions resolves and its caller goes on: cleanUp calls
\* deleteFunction for every selected function and awaits them all,
\* uploadFunctions runs its report loop (lines 196-205) and returns.
ListResponse ==
  /\ pc = "list" /\ poll = "probe"
  /\ \E resp \in ListResponses(hostUnits) :
       /\ lastResp' = resp
       /\ IF ListNotReady(resp)
            THEN /\ retries' = retries + 1
                 /\ IF Exhausted(retry, retryCount)
                      THEN poll' = "failed" /\ pc' = "failed"
                           /\ err' = ListProbeError(resp)
                      ELSE poll' = "wait" /\ UNCHANGED <<pc, err>>
                 /\ UNCHANGED <<ret, retry, deployedFunctions, delTask, reqs,
                                bindings, reported>>
            ELSE /\ poll' = "done"
                 /\ deployedFunctions' = resp.data.value
                 /\ UNCHANGED <<retry, retries>>
                 /\ CASE op = "cleanUp" ->
                        LET tasks == DeleteTasks(resp.data.value, serviceFunctions)
                        IN /\ delTask' = [n \in tasks |-> "inflight"]
                           /\ pc' = CleanUpNext(delTask')
                           /\ ret' = IF pc' = "done" THEN "responses" ELSE ret
                           /\ reqs' = [reqs EXCEPT !["delete"] = @ + Cardinality(tasks)]
                           /\ UNCHANGED <<err, bindings, reported>>
                      [] op = "uploadFunctions" ->
                        \E bnd \in [resp.data.value \cap serviceFunctions ->
                                      TriggerSamples] :
                          LET out == ReportFrom(1, resp.data.value,
                                                serviceFunctions, bnd, <<>>)
                          IN /\ bindings' = bnd
                             /\ reported' = out.lines
                             /\ pc' = IF out.threw THEN "failed" ELSE "done"
                             /\ err' = IF out.threw THEN Err("TypeError") ELSE err
                             /\ ret' = IF out.threw THEN ret ELSE "void"
                             /\ UNCHANGED <<delTask, reqs>>
                      [] OTHER ->
                        /\ pc' = "done" /\ ret' = "list"
                        /\ UNCHANGED <<err, delTask, reqs, bindings, reported>>
       /\ UNCHANGED <<op, inputs, hostUnits, appSettings, upload>>
  /\ UNCHANGED <<httpConfig, armConfig, deployment, other>>

\* The listing request fails in transport: not a "not ready" signal.
ListRequestThrows ==
  /\ pc = "list" /\ poll = "probe"
  /\ poll' = "failed" /\ pc' = "failed" /\ err' = Err("Transport")
  /\ lastResp' = NoResp
  /\ UNCHANGED <<op, ret, inputs, hostUnits, appSettings, upload, retry,
                 retries, deployedFunctions, delTask, reqs>>
  /\ UNCHANGED extra

\* runWithRetry: the delay after a failed attempt is over, probe again.
RetryDelayElapsed ==
  /\ poll = "wait"
  /\ poll' = "probe" /\ retry' = retry + 1
  /\ reqs' = Bump({IF op = "getFunction" THEN "get" ELSE "list"})
  /\ UNCHANGED <<op, pc, err, ret, inputs, hostUnits, appSettings, upload,
                 retries, lastResp, deployedFunctions, delTask>>
  /\ UNCHANGED extra

\* getFunction(functionApp, functionName)
\* getFunction: the two preconditions checked on entry
GetFunctionGuardsNullOnly(fa, name) == GuardNull(fa)
GetFunctionGuards(fa, name) == GuardNull(fa) \/ GuardEmpty(name)

CallGetFunction ==
  /\ pc = "idle"
  /\ \E fa \in {"null", "site"}, name \in Names \cup {""} :
       /\ op' = "getFunction" /\ functionApp' = fa /\ functionName' = name
       /\ IF GetFunctionGuards(fa, name)
            THEN /\ pc' = "failed" /\ err' = Err("Guard")
                 /\ UNCHANGED <<poller, reqs>>
            ELSE /\ pc' = "get" /\ BeginPoll
                 /\ reqs' = Bump({"get"})
                 /\ UNCHANGED err
       /\ UNCHANGED <<ret, external, functionZipFile, serviceFunctions,
                      setting, value, hostUnits, appSettings, upload, delTask>>
  /\ UNCHANGED extra

\* The single-function request of the current attempt is answered.  On a
\* non-success status the probe's throw statement reads the outer `response`
\* before it is initialised: a ReferenceError or a TypeError, depending on
\* the build; either way the probe throws, which is its retry signal.
GetResponse ==
  /\ pc = "get" /\ poll = "probe"
  /\ \E resp \in GetResponses(functionName) :
       /\ lastResp' = resp
       /\ IF GetNotReady(resp)
            THEN IF Exhausted(retry, retryCount)
                   THEN poll' = "failed" /\ pc' = "done" /\ ret' = "null"
                   ELSE poll' = "wait" /\ UNCHANGED <<pc, ret>>
            ELSE /\ poll' = "done" /\ pc' = "done"
                 /\ ret' = ResponseProperties(resp)
       /\ UNCHANGED <<op, err, inputs, hostUnits, appSettings, upload, retry,
                      retries, deployedFunctions, delTask, reqs>>
  /\ UNCHANGED extra

\* The single-function request fails in transport; getFunction catches it.
GetRequestThrows ==
  /\ pc = "get" /\ poll = "probe"
  /\ poll' = "failed" /\ pc' = "done" /\ ret' = "null"
  /\ lastResp' = NoResp
  /\ UNCHANGED <<op, err, inputs, hostUnits, appSettings, upload, retry,
                 retries, deployedFunctions, delTask, reqs>>
  /\ UNCHANGED extra

(***************************************************************************)
(* deleteFunction                                                          *)
(***************************************************************************)
\* deleteFunction(functionApp, functionName)
CallDeleteFunction ==
  /\ pc = "idle"
  /\ \E fa \in {"null", "site"}, name \in Names \cup {""}, units \in SUBSET Names :
       /\ op' = "deleteFunction" /\ functionApp' = fa /\ functionName' = name
       /\ hostUnits' = units
       /\ IF GuardNull(fa) \/ GuardEmpty(name)
            THEN /\ pc' = "failed" /\ err' = Err("Guard")
                 /\ UNCHANGED <<delTask, reqs>>
            ELSE /\ pc' = "delete"
                 /\ delTask' = [n \in {name} |-> "inflight"]
                 /\ reqs' = Bump({"delete"})
                 /\ UNCHANGED err
       /\ UNCHANGED <<ret, external, functionZipFile, serviceFunctions,
                      setting, value, appSettings, upload, poller>>
  /\ UNCHANGED extra

\* The DELETE request for function n completes.
DeleteDone ==
  \E n \in DOMAIN delTask, ok \in BOOLEAN :
       /\ delTask[n] = "inflight"
       /\ delTask' = [delTask EXCEPT ![n] = IF ok THEN "done" ELSE "failed"]
       /\ hostUnits' = IF ok THEN hostUnits \ {n} ELSE hostUnits
       /\ pc' = CASE pc = "deleting" -> CleanUpNext(delTask')
                  [] pc = "delete"   -> IF ok THEN "done" ELSE "failed"
                  [] OTHER           -> pc
       /\ err' = IF pc' = "failed" /\ pc # "failed" THEN Err("Transport") ELSE err
       /\ ret' = IF pc' = "done" THEN "responses" ELSE ret
       /\ UNCHANGED <<op, inputs, appSettings, upload, poller, reqs>>
  /\ UNCHANGED extra


(***************************************************************************)
(* syncTriggers and updateFunctionAppSetting                               *)
(***************************************************************************)
\* Values getAllFunctions() can give where uploadFunctions may reach its call
\* (reads); elsewhere the value read so far stays.
Declared(reads) == IF reads THEN SUBSET Names ELSE {serviceFunctions}

\* uploadFunctions: the upload stage is over; read the service's functions
\* and call listFunctions (when pcNew = "list").
EnterReport(pcNew, service, issued) ==
  IF pcNew = "list" /\ pc # "list"
    THEN /\ serviceFunctions' = service
         /\ BeginPoll
         /\ reqs' = Bump(issued \cup {"list"})
    ELSE /\ reqs' = Bump(issued)
         /\ UNCHANGED <<serviceFunctions, poller>>

\* syncTriggers(functionApp, properties)
CallSyncTriggers ==
  /\ pc = "idle"
  /\ \E fa \in {"null", "site"}, props \in AppSettingsMaps :
       /\ op' = "syncTriggers" /\ functionApp' = fa
       /\ IF GuardNull(fa)
            THEN /\ pc' = "failed" /\ err' = Err("Guard")
                 /\ UNCHANGED <<sync, syncProps, reqs>>
            ELSE /\ pc' = "sync"
                 /\ sync' = "inflight" /\ syncProps' = props
                 /\ reqs' = Bump({"sync"})
                 /\ UNCHANGED err
       /\ UNCHANGED <<ret, functionName, external, functionZipFile, serviceFunctions,
                      setting, value, hostUnits, appSettings, blob, push, settings,
                      properties, poller, delTask>>
  /\ UNCHANGED extra

\* The POST to syncfunctiontriggers completes.
SyncDone ==
  /\ sync = "inflight"
  /\ \E ok \in BOOLEAN, service \in Declared(pc = "ext_sync") :
       /\ sync' = IF ok THEN "done" ELSE "failed"
       /\ pc' = CASE pc = "ext_sync" -> ExtAfterSync(sync')
                  [] pc = "sync"     -> IF ok THEN "done" ELSE "failed"
                  [] OTHER           -> pc
       /\ err' = IF pc' = "failed" /\ pc # "failed" THEN Err("SyncTriggers") ELSE err
       /\ ret' = IF pc = "sync" /\ ok THEN "response" ELSE ret
       /\ EnterReport(pc', service, {})
       /\ UNCHANGED <<op, functionApp, functionName, external, functionZipFile,
                      setting, value, hostUnits, appSettings, blob, push, settings,
                      properties, syncProps, delTask>>
  /\ UNCHANGED extra

\* updateFunctionAppSetting: properties[setting] = value on the fetched map
OnlyKey(props, key, val) == [k \in SettingKeys |-> IF k = key THEN val ELSE "unset"]
SetKey(props, key, val)  == [props EXCEPT ![key] = val]

\* updateFunctionAppSetting: the PUT replaces the host's whole settings map
PutIgnored(current, props)  == current
PutSettings(current, props) == props

\* updateFunctionAppSetting(functionApp, setting, value)
CallUpdateFunctionAppSetting ==
  /\ pc = "idle"
  /\ \E key \in SettingKeys, val \in SettingValues, current \in AppSettingsMaps :
       /\ op' = "updateFunctionAppSetting"
       /\ setting' = key /\ value' = val /\ appSettings' = current
       /\ pc' = "settings" /\ settings' = "reading"
       /\ reqs' = Bump({"settingsGet"})
       /\ UNCHANGED <<err, ret, functionApp, functionName, external, functionZipFile,
                      serviceFunctions, hostUnits, blob, push, properties, sync,
                      syncProps, poller, delTask>>
  /\ UNCHANGED extra

\* listApplicationSettings completes; on success set the key and PUT.
SettingsRead ==
  /\ settings = "reading"
  /\ \E ok \in BOOLEAN :
       /\ IF ok
            THEN /\ properties' = SetKey(appSettings, setting, value)
                 /\ settings' = "writing"
                 /\ reqs' = Bump({"settingsPut"})
                 /\ UNCHANGED <<pc, err>>
            ELSE /\ settings' = "failed"
                 /\ pc' = "failed" /\ err' = Err("Transport")
                 /\ UNCHANGED <<properties, reqs>>
       /\ UNCHANGED <<op, ret, inputs, hostUnits, appSettings, blob, push, sync,
                      syncProps, poller, delTask>>
  /\ UNCHANGED extra

\* The PUT of the whole settings map completes; in uploadFunctions the
\* response's properties are passed on to syncTriggers.
SettingsWrite ==
  /\ settings = "writing"
  /\ \E ok \in BOOLEAN :
       /\ settings' = IF ok THEN "done" ELSE "failed"
       /\ appSettings' = IF ok THEN PutSettings(appSettings, properties)
                              ELSE appSettings
       /\ IF ok /\ pc = "ext_settings"
            THEN /\ pc' = "ext_sync"
                 /\ sync' = "inflight" /\ syncProps' = properties
                 /\ reqs' = Bump({"sync"})
                 /\ UNCHANGED <<err, ret>>
            ELSE /\ pc' = IF ok THEN "done" ELSE "failed"
                 /\ err' = IF ok THEN err ELSE Err("UpdateSettings")
                 /\ ret' = IF ok THEN "response" ELSE ret
                 /\ UNCHANGED <<sync, syncProps, reqs>>
       /\ UNCHANGED <<op, inputs, hostUnits, blob, push, properties, poller, delTask>>
  /\ UNCHANGED extra

\* A second deployer calls updateFunctionAppSetting on the same function
\* app.  serial records that the first call was over when this one began.
OtherCall ==
  /\ op = "updateFunctionAppSetting" /\ other.pc = "none"
  /\ \E key \in SettingKeys, val \in SettingValues :
       other' = [other EXCEPT !.pc = "reading", !.setting = key, !.value = val,
                              !.serial = settings \in {"done", "failed"}]
  /\ reqs' = Bump({"settingsGet"})
  /\ UNCHANGED <<op, pc, err, ret, base, poller, report, armConfig, deployment>>

\* The second deployer's listApplicationSettings completes.
OtherRead ==
  /\ other.pc = "reading"
  /\ \E ok \in BOOLEAN :
       /\ other' = IF ok
                     THEN [other EXCEPT !.pc = "writing",
                             !.properties = SetKey(appSettings, other.setting,
                                                   other.value)]
                     ELSE [other EXCEPT !.pc = "failed"]
       /\ reqs' = Bump(IF ok THEN {"settingsPut"} ELSE {})
  /\ UNCHANGED <<op, pc, err, ret, base, poller, report, armConfig, deployment>>

\* The second deployer's PUT completes.
OtherWrite ==
  /\ other.pc = "writing"
  /\ \E ok \in BOOLEAN :
       /\ other' = [other EXCEPT !.pc = IF ok THEN "done" ELSE "failed"]
       /\ appSettings' = IF ok THEN PutSettings(appSettings, other.properties)
                              ELSE appSettings
  /\ UNCHANGED <<op, pc, err, ret, inputs, hostUnits, upload, poller, delTask,
                 reqs, report, armConfig, deployment>>

(***************************************************************************)
(* Artifact upload                                                         *)
(***************************************************************************)
\* uploadZippedArfifactToFunctionApp(functionApp, functionZipFile)
CallUploadZipped ==
  /\ pc = "idle"
  /\ \E file \in ZipFiles :
       /\ op' = "uploadZippedArfifactToFunctionApp" /\ functionZipFile' = file
       /\ IF ZipFound(file)
            THEN /\ push' = "token" /\ pc' = "push"
                 /\ reqs' = Bump({"token"})
                 /\ UNCHANGED err
            ELSE /\ push' = "failed" /\ pc' = "failed" /\ err' = Err("NoZip")
                 /\ UNCHANGED reqs
       /\ UNCHANGED <<ret, functionApp, functionName, external, serviceFunctions,
                      setting, value, hostUnits, appSettings, blob, settings,
                      properties, sync, syncProps, poller, delTask>>
  /\ UNCHANGED extra

\* uploadFunctions(functionApp), up to its first await
\* uploadFunctions: the test of config.provider.deployment.external
AlwaysExternal(ext)     == TRUE
ExternalDeployment(ext) == ext

CallUploadFunctions ==
  /\ pc = "idle"
  /\ \E fa \in {"null", "site"}, ext \in BOOLEAN, file \in ZipFiles,
        units \in SUBSET Names, current \in AppSettingsMaps :
       /\ op' = "uploadFunctions" /\ functionApp' = fa
       /\ IF GuardNull(fa)
            THEN /\ pc' = "failed" /\ err' = Err("Guard")
                 /\ UNCHANGED <<external, functionZipFile, hostUnits, appSettings,
                                blob, push, reqs>>
            ELSE /\ external' = ext /\ functionZipFile' = file
                 /\ hostUnits' = units /\ appSettings' = current
                 /\ blob' = "initialize"
                 /\ IF ExternalDeployment(ext)
                      THEN /\ pc' = "ext_blob"
                           /\ reqs' = Bump({"storage"})
                           /\ UNCHANGED <<push, err>>
                      ELSE /\ push' = IF ZipFound(file) THEN "token" ELSE "failed"
                           /\ pc' = JoinNext(blob', push')
                           /\ err' = IF pc' = "failed" THEN Err("NoZip") ELSE err
                           /\ reqs' = Bump({"storage"} \cup
                                           IF ZipFound(file) THEN {"token"} ELSE {})
       /\ UNCHANGED <<ret, functionName, serviceFunctions, setting, value, settings,
                      properties, sync, syncProps, poller, delTask>>
  /\ UNCHANGED extra

\* One of the blob service calls of uploadZippedArtifactToBlobStorage
\* completes; on success the next one is issued.  uploadFile reads the local
\* file, so it cannot succeed when the file does not exist.
BlobStep ==
  /\ blob \in BlobInFlight
  /\ \E ok \in BOOLEAN, service \in Declared(pc = "join") :
       /\ ok /\ blob = "uploadFile" => ZipFound(functionZipFile)
       /\ blob' = IF ok THEN BlobNext(blob) ELSE "failed"
       /\ pc' = CASE pc = "ext_blob" -> ExtAfterUpload(blob')
                  [] pc = "join"     -> JoinNext(blob', push)
                  [] OTHER           -> pc
       /\ err' = IF pc' = "failed" /\ pc # "failed" THEN Err("Storage") ELSE err
       /\ EnterReport(pc', service,
                      (IF blob' \in BlobInFlight THEN {"storage"} ELSE {}) \cup
                      (IF pc' = "ext_sas" THEN {"sas"} ELSE {}))
       /\ UNCHANGED <<op, ret, functionApp, functionName, external, functionZipFile,
                      setting, value, hostUnits, appSettings, push, settings,
                      properties, sync, syncProps, delTask>>
  /\ UNCHANGED extra

\* generateBlobSasTokenUrl completes; on success updateFunctionAppSetting is
\* called with the run-from-package setting and the SAS URL.
SasDone ==
  /\ pc = "ext_sas"
  /\ \E ok \in BOOLEAN :
       /\ IF ok
            THEN /\ pc' = "ext_settings"
                 /\ setting' = runFromPackageSetting /\ value' = "sasUrl"
                 /\ settings' = "reading"
                 /\ reqs' = Bump({"settingsGet"})
                 /\ UNCHANGED err
            ELSE /\ pc' = "failed" /\ err' = Err("Storage")
                 /\ UNCHANGED <<setting, value, settings, reqs>>
       /\ UNCHANGED <<op, ret, functionApp, functionName, external, functionZipFile,
                      serviceFunctions, hostUnits, appSettings, blob, push,
                      properties, sync, syncProps, poller, delTask>>
  /\ UNCHANGED extra

\* getAccessToken completes; on success the zip file is sent.
PushToken ==
  /\ push = "token"
  /\ \E ok \in BOOLEAN :
       /\ push' = IF ok THEN "sendFile" ELSE "failed"
       /\ pc' = CASE pc = "join" -> JoinNext(blob, push')
                  [] pc = "push" -> IF ok THEN "push" ELSE "failed"
                  [] OTHER       -> pc
       /\ err' = IF pc' = "failed" /\ pc # "failed" THEN Err("Transport") ELSE err
       /\ reqs' = Bump(IF ok THEN {"zipdeploy"} ELSE {})
       /\ UNCHANGED <<op, ret, inputs, hostUnits, appSettings, blob, settings,
                      properties, sync, syncProps, poller, delTask>>
  /\ UNCHANGED extra

\* The POST of the zip file to the SCM endpoint completes.
PushSendFile ==
  /\ push = "sendFile"
  /\ \E ok \in BOOLEAN, service \in Declared(pc = "join") :
       /\ push' = IF ok THEN "done" ELSE "failed"
       /\ pc' = CASE pc = "join" -> JoinNext(blob, push')
                  [] pc = "push" -> IF ok THEN "done" ELSE "failed"
                  [] OTHER       -> pc
       /\ err' = IF pc' = "failed" /\ pc # "failed" THEN Err("Transport") ELSE err
       /\ ret' = IF pc = "push" /\ ok THEN "void" ELSE ret
       /\ EnterReport(pc', service, {})
       /\ UNCHANGED <<op, functionApp, functionName, external, functionZipFile,
                      setting, value, hostUnits, appSettings, blob, settings,
                      properties, sync, syncProps, delTask>>
  /\ UNCHANGED extra

(***************************************************************************)
(* deploy and get                                                          *)
(***************************************************************************)

\* deploy: the ArmDeployment the configuration asks for
DeploymentFor(cfg) ==
  IF cfg.armTemplate # "none"
    THEN [from |-> "config", arg |-> cfg.armTemplate, state |-> "created"]
    ELSE [from |-> "type", state |-> "created",
          arg |-> IF cfg.type # "none" THEN cfg.type ELSE "consumption"]

\* deploy: position after the awaited deployTemplate
DeployIgnoreApply(ok) == "dep_get"
DeployAfterApply(ok)  == IF ok THEN "dep_get" ELSE "failed"

\* get: the error codes answered with null
OnlyResourceNotFound(code) == code = "ResourceNotFound"
SiteNotFound(code) == code = "ResourceNotFound" \/ code = "ResourceGroupNotFound"

\* deploy(), up to the awaited createDeploymentFromConfig / FromType
CallDeploy ==
  /\ pc = "idle"
  /\ \E cfg \in ArmConfigs :
       /\ op' = "deploy" /\ armConfig' = cfg
       /\ pc' = "dep_create"
       /\ reqs' = Bump({"armCreate"})
  /\ UNCHANGED <<err, ret, base, poller, report, deployment, other>>

\* The deployment is created; on success deployTemplate is called.
DeployCreated ==
  /\ pc = "dep_create"
  /\ \E ok \in BOOLEAN :
       IF ok
         THEN /\ deployment' = DeploymentFor(armConfig)
              /\ pc' = "dep_apply"
              /\ reqs' = Bump({"armDeploy"})
              /\ UNCHANGED err
         ELSE /\ pc' = "failed" /\ err' = Err("ArmCreate")
              /\ UNCHANGED <<deployment, reqs>>
  /\ UNCHANGED <<op, ret, base, poller, report, armConfig, other>>

\* deployTemplate completes; on success the function app is fetched.
DeployApplied ==
  /\ pc = "dep_apply"
  /\ \E ok \in BOOLEAN :
       /\ deployment' = IF ok THEN [deployment EXCEPT !.state = "applied"]
                              ELSE deployment
       /\ pc' = DeployAfterApply(ok)
       /\ err' = IF pc' = "failed" THEN Err("ArmDeploy") ELSE err
       /\ reqs' = Bump(IF pc' = "dep_get" THEN {"siteGet"} ELSE {})
  /\ UNCHANGED <<op, ret, base, poller, report, armConfig, other>>

\* get()
CallGet ==
  /\ pc = "idle"
  /\ op' = "get" /\ pc' = "site_get"
  /\ reqs' = Bump({"siteGet"})
  /\ UNCHANGED <<err, ret, base, poller, extra>>

\* webApps.get answers, with the site or with an error code.
SiteGetResponse ==
  /\ pc \in {"dep_get", "site_get"}
  /\ \E code \in SiteCodes :
       /\ lastResp' = [status |-> IF code = "none" THEN 200 ELSE 404,
                       data |-> [value |-> {}, error |-> code]]
       /\ ret' = IF SiteNotFound(code) THEN "null" ELSE "response"
       /\ pc' = "done"
  /\ UNCHANGED <<op, err, base, poll, retry, retries, deployedFunctions,
                 reqs, extra>>

\* webApps.get fails in transport.
SiteGetThrows ==
  /\ pc \in {"dep_get", "site_get"}
  /\ pc' = "failed" /\ err' = Err("Transport")
  /\ UNCHANGED <<op, ret, base, poller, reqs, extra>>

(***************************************************************************)
(* getFunctionHttpTriggerConfig                                            *)
(***************************************************************************)
\* getFunctionHttpTriggerConfig(functionApp, functionConfig), called by a
\* plugin on a function envelope of its own
CallGetFunctionHttpTriggerConfig ==
  /\ pc = "idle"
  /\ \E name \in {"a", "b"}, bs \in BindingLists :
       /\ op' = "getFunctionHttpTriggerConfig"
       /\ functionApp' = "site" /\ functionName' = name
       /\ bindings' = [n \in {name} |-> bs]
       /\ httpConfig' = getFunctionHttpTriggerConfig("site", name, bs)
       /\ pc' = "done"
  /\ UNCHANGED <<err, ret, external, functionZipFile, serviceFunctions, setting,
                 value, hostUnits, appSettings, upload, poller, delTask, reqs,
                 reported, armConfig, deployment, other>>

(***************************************************************************)
(* Specification                                                           *)
(***************************************************************************)
Next ==
  \/ CallListFunctions
  \/ CallCleanUp
  \/ ListResponse
  \/ ListRequestThrows
  \/ RetryDelayElapsed
  \/ CallGetFunction
  \/ GetResponse
  \/ GetRequestThrows
  \/ CallDeleteFunction
  \/ DeleteDone
  \/ CallSyncTriggers
  \/ SyncDone
  \/ CallUpdateFunctionAppSetting
  \/ SettingsRead
  \/ SettingsWrite
  \/ CallUploadZipped
  \/ CallUploadFunctions
  \/ BlobStep
  \/ SasDone
  \/ PushToken
  \/ PushSendFile
  \/ CallDeploy
  \/ DeployCreated
  \/ DeployApplied
  \/ CallGet
  \/ SiteGetResponse
  \/ SiteGetThrows
  \/ CallGetFunctionHttpTriggerConfig

Spec == Init /\ [][Next]_vars

\* Two deployers updating the settings of one function app
NextRace ==
  \/ CallUpdateFunctionAppSetting
  \/ SettingsRead
  \/ SettingsWrite
  \/ OtherCall
  \/ OtherRead
  \/ OtherWrite

SpecRace == Init /\ [][NextRace]_vars

(***************************************************************************)
(* Properties                                                              *)
(***************************************************************************)
ListOps == {"listFunctions", "cleanUp", "uploadFunctions"}

\* C1: once the listing has succeeded, cleanUp has issued a delete request
\* for exactly the observed functions that are not declared (O \ D), and for
\* none of the declared ones.
C1_DeletesExactlyUndeclared ==
  op = "cleanUp" /\ poll = "done" =>
    DOMAIN delTask = deployedFunctions \ serviceFunctions

\* C2: listFunctions never issues more than retryCount probes; it succeeds
\* exactly on the first ready (success, non-empty) answer, after k not-ready
\* answers and k+1 probes with k < retryCount; it fails with the timeout
\* error only after retryCount not-ready answers.
C2_RetryBound ==
  op \in ListOps =>
    /\ reqs["list"] <= retryCount
    /\ poll = "done" =>
         /\ lastResp.status = 200 /\ lastResp.data.value # {}
         /\ retries < retryCount /\ reqs["list"] = retries + 1
    /\ lastResp.status = 200 /\ lastResp.data.value # {} => poll = "done"
    /\ poll = "wait" => retries < retryCount /\ reqs["list"] = retries
    /\ pc = "failed" /\ err.msg = "TakingLonger" =>
         retries = retryCount /\ reqs["list"] = retryCount

C2_Witness ==
  op = "listFunctions" /\ pc = "done" /\ retries = retryCount - 1

\* C3: in the external variant the settings update starts only after the
\* storage upload is done, syncTriggers is called only after the settings
\* write is done, and a failed upload (settings update) leaves the settings
\* update and the sync (the sync) unattempted.
C3_ExternalOrdering ==
  op = "uploadFunctions" /\ external =>
    /\ settings # "none" => blob = "done"
    /\ sync # "none" => settings = "done"
    /\ blob # "done" => reqs["settingsGet"] = 0 /\ reqs["settingsPut"] = 0
    /\ settings # "done" => reqs["sync"] = 0
    /\ blob = "failed" => settings = "none" /\ sync = "none" /\ pc = "failed"
    /\ settings = "failed" => sync = "none" /\ pc = "failed"

C3_Witness ==
  op = "uploadFunctions" /\ external /\ sync = "done" /\ reqs["storage"] = 3

\* C4 (as claimed): when the direct push fails for a missing zip file, no
\* network call of any kind has been issued.
C4_NoCallBeforeMissingZip ==
  err.msg = "NoZip" => \A k \in Kinds : reqs[k] = 0

\* C4 (amended): with a zip file that does not exist the direct push fails
\* at once with the missing-file error and no token fetch and no host push
\* is ever issued; uploadZippedArfifactToFunctionApp called alone has issued
\* no request at all, while uploadFunctions has already started the storage
\* upload.
C4_MissingZipFailsBeforePush ==
  push # "none" /\ functionZipFile \notin LocalFiles =>
    /\ push = "failed" /\ pc = "failed" /\ err.msg = "NoZip"
    /\ reqs["token"] = 0 /\ reqs["zipdeploy"] = 0
    /\ op = "uploadZippedArfifactToFunctionApp" => \A k \in Kinds : reqs[k] = 0
    /\ op = "uploadFunctions" => blob # "none" /\ reqs["storage"] >= 1

C4_Witness ==
  /\ op = "uploadFunctions" /\ ~external /\ err.msg = "NoZip"
  /\ blob = "initialize" /\ reqs["storage"] = 1

\* C5: in the direct variant uploadFunctions has gone past the join (to the
\* listing, to its return, or to a failure) only when neither the storage
\* upload nor the host push is still in flight.
C5_JoinWaitsForBoth ==
  op = "uploadFunctions" /\ ~external /\ pc \notin {"idle", "join"} =>
    blob \notin BlobInFlight /\ push \notin PushInFlight

\* C6: once the listing has succeeded, cleanUp has issued the delete request
\* of every function its filter selected, whatever the outcome of the other
\* deletions, and it has failed exactly when one of the deletions has.
C6_AllDeletionsAttempted ==
  op = "cleanUp" /\ poll = "done" =>
    /\ DOMAIN delTask = DeleteTasks(deployedFunctions, serviceFunctions)
    /\ \A n \in DOMAIN delTask : delTask[n] \in {"inflight", "done", "failed"}
    /\ reqs["delete"] = Cardinality(DOMAIN delTask)
    /\ pc = "failed" <=> \E n \in DOMAIN delTask : delTask[n] = "failed"
    /\ pc = "done" <=> \A n \in DOMAIN delTask : delTask[n] = "done"

C6_Witness ==
  /\ op = "cleanUp" /\ pc = "failed" /\ reqs["delete"] >= 2
  /\ \E n, m \in DOMAIN delTask : delTask[n] = "failed" /\ delTask[m] = "done"

\* C7: when cleanUp has failed because of a deletion, no deletion is still
\* in flight.
C7_FailureAfterAllDeletions ==
  op = "cleanUp" /\ poll = "done" /\ pc = "failed" =>
    \A n \in DOMAIN delTask : delTask[n] # "inflight"

\* C8: when listFunctions has used up its attempts the error is the timeout
\* error, not the transport error, and carries the data of the last
\* response; a listing that fails otherwise fails with the transport error.
C8_TimeoutDiagnostics ==
  op \in ListOps /\ poll = "failed" =>
    /\ pc = "failed"
    /\ IF retries = retryCount
         THEN /\ err.msg = "TakingLonger" /\ err.msg # "Transport"
              /\ lastResp # NoResp /\ err.data = lastResp.data
         ELSE err.msg = "Transport"

C8_Witness ==
  /\ op = "listFunctions" /\ pc = "failed" /\ retries = retryCount
  /\ err.msg = "TakingLonger" /\ err.data.error = "unavailable"

\* C9: with a host and a non-empty name getFunction never fails; it probes
\* at most retryCount times, probes again after a non-success answer,
\* returns the function on the first success answer, and returns null once
\* retryCount answers were non-success.
C9_GetFunctionSoftNegative ==
  op = "getFunction" /\ functionApp = "site" /\ functionName # "" =>
    /\ pc # "failed" /\ err = NoErr
    /\ reqs["get"] <= retryCount
    /\ poll = "wait" => lastResp.status # 200 /\ reqs["get"] < retryCount
    /\ lastResp.status = 200 => pc = "done" /\ ret = functionName
    /\ pc = "done" /\ ret # "null" => lastResp.status = 200 /\ ret = functionName
    /\ pc = "done" /\ ret = "null" /\ lastResp # NoResp =>
         lastResp.status # 200 /\ reqs["get"] = retryCount

C9_Witness ==
  /\ op = "getFunction" /\ pc = "done" /\ ret = "null"
  /\ lastResp.status = 404 /\ reqs["get"] = retryCount

\* C10: syncTriggers, deleteFunction, the settings update and the direct
\* push issue their request at most once, and once one of them has failed
\* the invocation has failed and no listing is ever started.
C10_NoLocalRetry ==
  /\ reqs["sync"] <= 1 /\ reqs["settingsGet"] <= 1 /\ reqs["settingsPut"] <= 1
  /\ reqs["token"] <= 1 /\ reqs["zipdeploy"] <= 1
  /\ reqs["delete"] <= Cardinality(DOMAIN delTask)
  /\ (sync = "failed" \/ settings = "failed" \/ push = "failed"
        \/ \E n \in DOMAIN delTask : delTask[n] = "failed") =>
       /\ pc = "failed"
       /\ op = "uploadFunctions" => poll = "idle" /\ reqs["list"] = 0

C10_Witness ==
  /\ op = "uploadFunctions" /\ external /\ sync = "failed" /\ pc = "failed"
  /\ reqs["sync"] = 1

\* C11: deploy creates the deployment from the explicit template when one
\* is configured and from the named type (default consumption) otherwise,
\* applies it, and fetches the function app only after the apply succeeded;
\* when the creation or the apply fails deploy fails with no fetch and no
\* upload request issued.
C11_ProvisionFirst ==
  op = "deploy" =>
    /\ reqs["armCreate"] = 1 /\ reqs["armDeploy"] <= 1 /\ reqs["siteGet"] <= 1
    /\ reqs["armDeploy"] = 1 =>
         /\ deployment.state \in {"created", "applied"}
         /\ armConfig.armTemplate # "none" =>
              deployment.from = "config" /\ deployment.arg = armConfig.armTemplate
         /\ armConfig.armTemplate = "none" =>
              /\ deployment.from = "type"
              /\ deployment.arg = IF armConfig.type = "none" THEN "consumption"
                                  ELSE armConfig.type
    /\ reqs["siteGet"] = 1 => deployment.state = "applied"
    /\ err.msg \in {"ArmCreate", "ArmDeploy"} =>
         /\ pc = "failed" /\ deployment.state # "applied"
         /\ \A k \in Kinds \ {"armCreate", "armDeploy"} : reqs[k] = 0

C11_Witness ==
  /\ op = "deploy" /\ pc = "done" /\ ret = "response"
  /\ deployment = [from |-> "config", arg |-> "custom", state |-> "applied"]

\* C12: get issues one fetch; it returns null exactly when the response
\* carries the code ResourceNotFound or ResourceGroupNotFound and the
\* response otherwise, and it fails only when the fetch itself fails.
C12_ResolveHost ==
  op = "get" =>
    /\ reqs["siteGet"] = 1
    /\ pc = "done" =>
         /\ ret \in {"null", "response"}
         /\ ret = "null" <=>
              lastResp.data.error \in {"ResourceNotFound", "ResourceGroupNotFound"}
    /\ lastResp # NoResp => pc = "done" /\ err = NoErr
    /\ pc = "failed" => err.msg = "Transport" /\ lastResp = NoResp

C12_Witness ==
  /\ op = "get" /\ pc = "done" /\ ret = "null"
  /\ lastResp.data.error = "ResourceGroupNotFound"

\* C13: deleteFunction, syncTriggers, cleanUp, listFunctions, getFunction and
\* uploadFunctions called with a null function app, and deleteFunction and
\* getFunction called with an empty function name, fail with the guard error
\* with no request issued, no retry, and no null result.
GuardedOps == {"deleteFunction", "syncTriggers", "cleanUp", "listFunctions",
               "getFunction", "uploadFunctions"}

PreconditionViolated ==
  \/ op \in GuardedOps /\ functionApp = "null"
  \/ op \in {"deleteFunction", "getFunction"} /\ functionName = ""

C13_PreconditionsFailFast ==
  PreconditionViolated =>
    /\ pc = "failed" /\ err.msg = "Guard"
    /\ \A k \in Kinds : reqs[k] = 0
    /\ poll = "idle" /\ retry = 0 /\ retries = 0
    /\ ret # "null"

C13_Witness ==
  /\ op = "getFunction" /\ functionApp = "site" /\ functionName = ""
  /\ pc = "failed" /\ err.msg = "Guard"

\* The httpTrigger bindings of the function the trigger config was asked for
HttpTriggers == {i \in DOMAIN bindings[functionName] :
                   bindings[functionName][i].type = "httpTrigger"}
FirstTrigger ==
  bindings[functionName][CHOOSE i \in HttpTriggers : \A j \in HttpTriggers : i <= j]

\* C14: getFunctionHttpTriggerConfig returns nothing, and raises nothing,
\* when the function has no httpTrigger binding; otherwise it reads the first
\* httpTrigger binding and returns the URL made of the default host name,
\* "/api/" and the binding's route (the function name when the binding gives
\* no route or an empty one), the binding's methods (["*"] when it gives
\* none) and the binding's auth level.
C14_TriggerExtraction ==
  op = "getFunctionHttpTriggerConfig" =>
    /\ pc = "done" /\ err = NoErr
    /\ HttpTriggers = {} => httpConfig = NoConfig
    /\ HttpTriggers # {} =>
         /\ httpConfig.found
         /\ httpConfig.url =
              <<defaultHostName, "/api/",
                IF FirstTrigger.route \notin {"none", ""}
                  THEN FirstTrigger.route ELSE functionName>>
         /\ httpConfig.methods =
              IF FirstTrigger.methods.given THEN FirstTrigger.methods.items
                                            ELSE <<"*">>
         /\ httpConfig.authLevel = FirstTrigger.authLevel
         /\ httpConfig.name = functionName

C14_Witness ==
  /\ op = "getFunctionHttpTriggerConfig" /\ functionName = "a"
  /\ Len(bindings["a"]) = 2
  /\ bindings["a"][1].type = "httpTrigger" /\ bindings["a"][2].type = "httpTrigger"
  /\ bindings["a"][1].route = "none" /\ bindings["a"][2].route = "widgets/{id}"
  /\ ~bindings["a"][1].methods.given /\ bindings["a"][2].methods.given
  /\ httpConfig.url = <<defaultHostName, "/api/", "a">>
  /\ httpConfig.methods = <<"*">>

\* C15: the trigger config returned for a function carries the resolved
\* route (the binding's route, or the function name when it gives none),
\* never an absent one, and the methods in upper case.
C15_NormalizedProjection ==
  op = "getFunctionHttpTriggerConfig" /\ httpConfig.found =>
    /\ httpConfig.route # "none"
    /\ httpConfig.route = IF FirstTrigger.route \notin {"none", ""}
                            THEN FirstTrigger.route ELSE functionName
    /\ httpConfig.methods =
         [i \in DOMAIN httpConfig.methods |-> toUpperCase(httpConfig.methods[i])]

\* C16: uploadFunctions with the external flag off never reads or writes the
\* application settings and never calls syncTriggers; with the flag on it
\* never pushes the zip file to the function app.
C16_DirectPushFrame ==
  op = "uploadFunctions" =>
    /\ ~external =>
         /\ reqs["settingsGet"] = 0 /\ reqs["settingsPut"] = 0 /\ reqs["sync"] = 0
         /\ settings = "none" /\ sync = "none"
    /\ external =>
         /\ reqs["token"] = 0 /\ reqs["zipdeploy"] = 0
         /\ push = "none"

C16_Witness ==
  /\ op = "uploadFunctions" /\ ~external /\ pc = "done"
  /\ reqs["zipdeploy"] = 1 /\ reqs["storage"] > 0

C16_WitnessExternal ==
  /\ op = "uploadFunctions" /\ external /\ pc = "done"
  /\ reqs["settingsPut"] = 1 /\ reqs["sync"] = 1

\* Both deployers have completed and the value one of them wrote under its
\* key is no longer in the settings map.
LostUpdate ==
  /\ settings = "done" /\ other.pc = "done"
  /\ setting # other.setting
  /\ appSettings[setting] # value \/ appSettings[other.setting] # other.value

\* C17: when the second deployer's update begins only after the first one is
\* over, no completed update is lost; when the two interleave, a state is
\* reachable in which both have completed and one's value has been
\* overwritten by the other's stale copy.
C17_SerialKeepsBoth == other.serial => ~LostUpdate

C17_Witness ==
  /\ LostUpdate /\ ~other.serial
  /\ appSettings[setting] # value
  /\ appSettings[other.setting] = other.value

C17_WitnessSerial ==
  /\ other.serial /\ settings = "done" /\ other.pc = "done"
  /\ setting # other.setting
  /\ value = "sasUrl" /\ other.value = "sasUrl"

\* C18: with no other writer, a successful updateFunctionAppSetting leaves
\* the settings map as it was fetched except that the key holds the value;
\* until then, and when the write fails, the map is unchanged.
C18_SettingsFrame ==
  [][/\ settings = "reading" => appSettings' = appSettings
     /\ settings = "writing" =>
          /\ settings' = "done" =>
               appSettings' = [k \in SettingKeys |->
                                 IF k = setting THEN value ELSE appSettings[k]]
          /\ settings' = "failed" => appSettings' = appSettings]_vars

C18_Witness ==
  /\ op = "updateFunctionAppSetting" /\ pc = "done" /\ settings = "done"
  /\ value = "unset" /\ appSettings[setting] = "unset"
  /\ \E k \in SettingKeys : k # setting /\ appSettings[k] = "sasUrl"

\* The function app has no function, and had none when the call began
ZeroUnitHost == hostUnits = {} /\ deployedFunctions = {}

\* C19: listFunctions never resolves with an empty list.  Against a function
\* app with no function the listing never succeeds, so listFunctions, cleanUp
\* and uploadFunctions never complete there: once every probe has been
\* answered they fail with the timeout error after retryCount probes, and
\* cleanUp issues no delete request.
C19_EmptyListingNeverReturned ==
  op \in ListOps =>
    /\ poll = "done" => deployedFunctions # {} /\ lastResp.data.value # {}
    /\ reqs["delete"] > 0 => poll = "done"
    /\ ZeroUnitHost =>
         /\ poll # "done" /\ pc # "done" /\ ret \notin {"list", "void", "responses"}
         /\ reqs["delete"] = 0 /\ DOMAIN delTask = {}
         /\ poll = "failed" /\ lastResp # NoResp =>
              /\ pc = "failed" /\ err.msg = "TakingLonger"
              /\ retries = retryCount /\ reqs["list"] = retryCount

C19_Witness ==
  /\ op = "cleanUp" /\ functionApp = "site" /\ ZeroUnitHost
  /\ pc = "failed" /\ err.msg = "TakingLonger"
  /\ lastResp.status = 200 /\ lastResp.data.value = {}
  /\ reqs["list"] = retryCount /\ reqs["delete"] = 0

\* The observed functions that are declared and have an httpTrigger binding
Reportable ==
  {n \in deployedFunctions \cap serviceFunctions :
     \E i \in DOMAIN bindings[n] : bindings[n][i].type = "httpTrigger"}

\* C20: once the upload has succeeded and the listing has returned,
\* uploadFunctions completes without an error whatever the bindings of the
\* observed functions are, and it has logged one line for exactly the
\* observed functions that are declared and have an HTTP trigger.
C20_ReportNeverFails ==
  op = "uploadFunctions" /\ poll = "done" =>
    /\ pc = "done" /\ err = NoErr
    /\ {reported[i][1] : i \in DOMAIN reported} = Reportable
    /\ Len(reported) = Cardinality(Reportable)

\* The report stage stopped at a declared function whose httpTrigger binding
\* has an empty methods list.
C20_ReportThrew ==
  /\ op = "uploadFunctions" /\ poll = "done"
  /\ pc = "failed" /\ err.msg = "TypeError"
  /\ \E n \in Reportable : bindings[n][1].methods = [given |-> TRUE, items |-> <<>>]

====
